---- MODULE Spec2Model ----
(***************************************************************************)
(* Verification model of the local-first core of the tracker application:  *)
(* the gamification engine (XP, level, achievements), the habit streak     *)
(* tracker and the scheduled notification queue, each over the key-value   *)
(* store (localStorage) and the document store (IndexedDB) wrappers of     *)
(* src/js/storage-manager.js.                                              *)
(*                                                                         *)
(* The repository holds several variants of the same manager.  A variant   *)
(* is chosen in the initial state and never changes afterwards:            *)
(*   gmVariant "legacy"   GamificationManager of src/unnamed/part_007      *)
(*             "injected" GamificationManager of src/js/habit-engine.js    *)
(***************************************************************************)
EXTENDS Integers, Sequences, FiniteSets, TLC

VARIABLES
    \* ---- gamification engine
    gmVariant,        \* which GamificationManager class is loaded
    userProfile,      \* this.userProfile: None (null) or Some([xp, totalXP, level])
    achievements,     \* this.achievements: [loaded, unlocked]
    lsProfile,        \* localStorage['userProfile']: None or Some(profile)
    lsAchievements,   \* localStorage['achievements']: None or Some(set of unlocked ids)
    lsOverflow,       \* a write now would push localStorage past maxLocalStorageSize
    migratedData,     \* systemDB.migratedData: sequence of [originalKey, data]
    xpCall,           \* the last addXP call: amount, state before, outcome, result
    achCall,          \* the last unlockAchievement call
    everUnlocked,     \* ids whose unlocked flag has been true at some point
    achXp,            \* per id, the xp this manager has added for unlocking it
    \* ---- level function on its own
    lvXp, lvLevel,
    \* ---- scheduled notification queue
    ntVariant,              \* which NotificationManager class is loaded
    now,                    \* the clock
    permission,             \* this.permission
    platformPermission,     \* Notification.permission
    ctorThrows,             \* new Notification(...) raises on this platform
    scheduledNotifications, \* this.scheduledNotifications
    lsNotifs,               \* localStorage['scheduledNotifications']: None or Some(list)
    nextId,                 \* the next id scheduleNotification hands out
    timerOn,                \* init() has started the 60 s interval
    delivered,              \* per id, notifications shown by this manager's polls
    lastPoll,               \* the last poll: permission it ran under, ids it found due
    pollDue,                \* the poll in progress: ids it selected and has not
                            \* delivered yet (<<>>: no poll is in progress)
    \* ---- habit engine (one habit)
    clock,          \* the time in half days since the first day, 00:00 UTC
    tzShift,        \* half days the browser's local time is ahead of UTC (0 or 1)
    habitExists,    \* the habit has been added
    habitLogs,      \* this.habitLogs: sequence of [date, status], dates are UTC days
    dbLogs,         \* habitsDB.habitLogs, in key order
    streak,         \* this.streaks.get(habitId): None or Some(streak record)
    dbStreak,       \* habitsDB.streaks record of the habit: None or Some(record)
    hbCall,         \* the last toggleHabit call and the state it started from
    xpAwards,       \* per UTC day, the toggleHabit calls that raised the xp
    doneDays,       \* the days, UTC and local, with a toggleHabit(id, true)
    \* ---- key-value store (window.localStorage behind StorageManager)
    localStorage,   \* per key: None or Some([data, len]), len the length of the
                    \* serialized value
    platformQuota,  \* the size at which the browser's setItem raises QuotaExceededError
    hasRun,         \* a page of the application was loaded before (first run is over)
    redirected,     \* per key: Some(data) of the last saveToLocalStorage of the key
                    \* when it was handed to migrateToIndexedDB, else None
    kvCall,         \* the last call made on the store
    \* ---- clock of the cached features
    hour,           \* the time in hours since the first day, 00:00 UTC
    tzHours,        \* hours the browser's local time is ahead of UTC
    \* ---- cached network features (weather, prayer times)
    cacheFeature,   \* which manager is loaded: "weather" or "prayer"
    hasLocation,    \* the stored user profile holds a location
    lsCache,        \* localStorage['weatherCache' / 'prayerTimesCache']:
                    \* None or Some([data, timestamp])
    featureData,    \* this.weatherData / this.prayerTimes: None or Some(data)
    readCall,       \* the last cached read (init) and what it did
    \* ---- AI integration
    aiVariant,      \* which AI integration class is loaded
    aiStorage,      \* this.storageManager is set (the collaborator was given)
    aiInited,       \* init() has run on this instance
    requestCount,   \* this.requestCount
    lsUsage,        \* localStorage['ai-usage']: None or Some([date, count])
    aiCache,        \* this.cache.get(key) for one cache key: None or
                    \* Some([response, timestamp])
    lsAiCache,      \* the entry of that key in localStorage['ai-cache']
    inFlight,       \* requests waiting for the provider's answer: sequence of
                    \* [key], key "k" (the cache key above) or "fresh"
    sentToday,      \* requests sent to the provider since local midnight
    lastCheckDay,   \* local date of the last quota check: None or Some(date)
    aiCall,         \* the last recommendation request: what its quota check saw
                    \* and how it was answered
    \* ---- one object store of the document store
    dbAuto,         \* the store was created with autoIncrement: true
    docStore,       \* its records [key, value], in key order (what getAll returns)
    keyGen,         \* the store's key generator: the next key it hands out
    dbCall,         \* the last saveToDB on the store and what became of it
    \* ---- the other holders of the user profile (src/unnamed/part_006)
    stProfile,      \* SettingsManager.userProfile: None or Some(profile)
    wmProfile,      \* WeatherManager.userProfile: None or Some(profile)
    xpDue           \* the xp the stored profile started with plus every amount
                    \* addXP has added since

gmVars == <<gmVariant, userProfile, achievements, lsProfile, lsAchievements,
            lsOverflow, migratedData, xpCall, achCall, everUnlocked, achXp>>
lvVars == <<lvXp, lvLevel>>
ntVars == <<ntVariant, now, permission, platformPermission, ctorThrows,
            scheduledNotifications, lsNotifs, nextId, timerOn, delivered, lastPoll,
            pollDue>>
hbVars == <<clock, tzShift, habitExists, habitLogs, dbLogs, streak, dbStreak, hbCall,
           xpAwards, doneDays>>
kvVars == <<localStorage, platformQuota, hasRun, redirected, kvCall>>
tmVars == <<hour, tzHours>>
chVars == <<cacheFeature, hasLocation, lsCache, featureData, readCall>>
aiVars == <<aiVariant, aiStorage, aiInited, requestCount, lsUsage, aiCache, lsAiCache,
            inFlight, sentToday, lastCheckDay, aiCall>>
dbVars == <<dbAuto, docStore, keyGen, dbCall>>
pfVars == <<stProfile, wmProfile, xpDue>>
vars == <<gmVars, lvVars, ntVars, hbVars, kvVars, tmVars, chVars, aiVars, dbVars, pfVars>>
notDb == <<gmVars, lvVars, ntVars, hbVars, kvVars, tmVars, chVars, aiVars, pfVars>>
\* the holders of the profile write the stored profile of the gamification engine
notPf == <<lvVars, ntVars, hbVars, kvVars, tmVars, chVars, aiVars, dbVars>>
notGm == <<lvVars, ntVars, hbVars, kvVars, tmVars, chVars, aiVars, dbVars, pfVars>>
notLv == <<gmVars, ntVars, hbVars, kvVars, tmVars, chVars, aiVars, dbVars, pfVars>>
\* the key-value store's fill state and the migration collection are shared
notNt == <<gmVariant, userProfile, achievements, lsProfile, lsAchievements,
           xpCall, achCall, everUnlocked, achXp, lvVars, hbVars, kvVars,
           tmVars, chVars, aiVars, dbVars, pfVars>>
\* the habit engine awards xp through the gamification engine
notHb == <<lvVars, ntVars, kvVars, tmVars, chVars, aiVars, dbVars, pfVars>>
\* the key-value store hands entries to the migration collection and stamps
\* them with the clock
notKv == <<gmVariant, userProfile, achievements, lsProfile, lsAchievements,
           lsOverflow, xpCall, achCall, everUnlocked, achXp, lvVars,
           ntVariant, permission, platformPermission, ctorThrows,
           scheduledNotifications, lsNotifs, nextId, timerOn, delivered, lastPoll,
           pollDue,
           hbVars, tmVars, chVars, aiVars, dbVars, pfVars>>
\* the cached features write their cache through saveToLocalStorage and read the
\* clock
notCh == <<gmVariant, userProfile, achievements, lsProfile, lsAchievements,
           migratedData, xpCall, achCall, everUnlocked, achXp, lvVars, ntVars,
           hbVars, kvVars, aiVars, dbVars, pfVars>>
\* the AI integration reads the clock
notAi == <<gmVars, lvVars, ntVars, hbVars, kvVars, chVars, dbVars, pfVars>>

-----------------------------------------------------------------------------
\* Bounds of the model

\* addXP is not called once xp would pass this value
MaxXP == 450
\* the level function is evaluated on 0..MaxLevelXp
MaxLevelXp == 1000
\* the clock runs over 0..MaxTime
MaxTime == 2
\* at most this many notifications are ever scheduled
MaxNotifs == 2
\* the habit clock runs over 0..MaxClock (HalfDaysPerDay steps a day)
MaxClock == 7
\* toggleHabit is not called once habitsDB.habitLogs holds this many records
MaxLogs == 5
\* the values written to the key-value store are 1..MaxData
MaxData == 2
\* the keys a record put into the object store can carry are 1..MaxKey, and the
\* key generator hands out keys up to MaxKey
MaxKey == 3
\* the serialized length of a small value
SmallLen == 2
\* a backup file restores at most this many entries
MaxBackup == 2
\* the clock of the weather and prayer-time caches runs over 0..MaxHour
MaxHour == 26
\* the clock of the AI integration moves in steps of AiClockStep hours (half the
\* lifetime of a cached response), up to MaxAiHour
AiClockStep == 84
MaxAiHour == 252
\* the browser's offset from UTC is 0 or TzOffset hours
TzOffset == 12
\* requests waiting for the provider at one time
MaxInFlight == 1
\* requests sent today beyond the counted ones (failed or still waiting)
MaxUncounted == 2

-----------------------------------------------------------------------------
\* Optional values: null/undefined is the empty sequence

None == <<>>
Some(x) == <<x>>
Get(o) == o[1]

GmVariants == {"legacy", "injected"}

-----------------------------------------------------------------------------
\* Level as a function of xp

\* Math.floor(Math.sqrt(q)) for q = xp / 100: the k with k*k <= q < (k+1)*(k+1),
\* found by counting up from 0
RECURSIVE FloorSqrtHundredths(_, _)
FloorSqrtHundredths(xp, k) ==
    IF 100 * (k + 1) * (k + 1) <= xp THEN FloorSqrtHundredths(xp, k + 1) ELSE k

\* part_007: calculateLevel(xp) = Math.floor(Math.sqrt(xp / 100)) + 1
CalculateLevelLegacy(xp) == FloorSqrtHundredths(xp, 0) + 1

\* habit-engine.js: getXPForLevel(level)
GetXPForLevel(level) ==
    IF level <= 1 THEN 0
    ELSE 50 * (level - 1) * (level - 2) + 100 * (level - 2) + 100

\* habit-engine.js: calculateLevel(xp): while (xp >= getXPForLevel(level + 1)) level++
RECURSIVE LevelLoop(_, _)
LevelLoop(xp, level) ==
    IF xp >= GetXPForLevel(level + 1) THEN LevelLoop(xp, level + 1) ELSE level

CalculateLevelInjected(xp) == LevelLoop(xp, 1)

calculateLevel(variant, xp) ==
    IF variant = "legacy" THEN CalculateLevelLegacy(xp) ELSE CalculateLevelInjected(xp)

-----------------------------------------------------------------------------
\* Achievement catalogue (the two entries both variants define)

AchIds == {"first_habit", "week_warrior"}
FirstHabitReward == 50
WeekWarriorReward == 100
XpReward(id) == IF id = "first_habit" THEN FirstHabitReward ELSE WeekWarriorReward

\* amounts the features award: getXPValue of easy / medium / hard habits
XpEasy == 10
XpMedium == 25
XpHard == 50
XpAmounts == {XpMedium, XpHard}

\* xp a stored profile can hold when the page is opened: none yet, or nine easy habits
StartXps == {0, 9 * XpEasy}

Profile(xp, totalXP, level) == [xp |-> xp, totalXP |-> totalXP, level |-> level]

\* the profile onboarding stores: stats { xp: 0, level: 1 } and no totalXP field
\* (a missing totalXP reads as 0 wherever it is used)
StoredProfile(xp) == Profile(xp, xp, 1)

NoCall == [amount |-> 0, before |-> None, outcome |-> "none", result |-> None,
           saved |-> FALSE]
NoAchCall == [id |-> "", wasUnlocked |-> FALSE, xpBefore |-> 0, xpAfter |-> 0,
              outcome |-> "none"]

-----------------------------------------------------------------------------
\* Each part at rest: the values its variables hold in a specification of
\* another part

NoPoll == [ran |-> FALSE, permission |-> "default", due |-> {}, threw |-> FALSE,
           afterCancel |-> {}]

LvIdle == lvXp = 0 /\ lvLevel = 0

GmIdle ==
    /\ userProfile = None
    /\ achievements = [loaded |-> FALSE, unlocked |-> {}]
    /\ lsProfile = None
    /\ lsAchievements = None
    /\ lsOverflow = FALSE
    /\ migratedData = <<>>
    /\ xpCall = NoCall
    /\ achCall = NoAchCall
    /\ everUnlocked = {}
    /\ achXp = [id \in AchIds |-> 0]

\* steps of the habit clock in a day
HalfDaysPerDay == 2
\* the UTC days the habit clock reaches, and no completion xp added on any
HabitDays == 0..(MaxClock \div HalfDaysPerDay)
NoAwards == [d \in HabitDays |-> 0]
NoDays == [utc |-> {}, local |-> {}]

NoToggle == [kind |-> "none", completed |-> FALSE, at |-> 0, before |-> None,
             logsBefore |-> <<>>]

HbIdle ==
    /\ clock = 0
    /\ tzShift = 0
    /\ habitExists = FALSE
    /\ habitLogs = <<>>
    /\ dbLogs = <<>>
    /\ streak = None
    /\ dbStreak = None
    /\ hbCall = NoToggle
    /\ xpAwards = NoAwards
    /\ doneDays = NoDays

KvKeys == {"userProfile", "onboardingComplete"}

NoKvCall == [op |-> "none", key |-> "", data |-> 0, len |-> 0,
             redirected |-> FALSE, returned |-> FALSE, at |-> 0,
             entry |-> "none", afterClear |-> FALSE, outcome |-> "none",
             firstRun |-> FALSE, reachedInit |-> FALSE, lost |-> FALSE,
             steps |-> <<>>]

KvIdle ==
    /\ localStorage = [k \in KvKeys |-> None]
    /\ platformQuota = 0
    /\ hasRun = FALSE
    /\ redirected = [k \in KvKeys |-> None]
    /\ kvCall = NoKvCall

NoRead == [kind |-> "none", at |-> 0, valid |-> FALSE, producerCalled |-> FALSE,
           producerFailed |-> FALSE, producerRaised |-> FALSE, outcome |-> "none",
           value |-> None]

TmIdle == hour = 0 /\ tzHours = 0

NoAiCall == [kind |-> "none", countSeen |-> 0, firstOfDay |-> FALSE,
             valid |-> FALSE, cachedResponse |-> None, sent |-> FALSE,
             outcome |-> "none", value |-> None, given |-> TRUE]

NoDbCall == [op |-> "none", key |-> None, value |-> 0, ok |-> FALSE,
             replaced |-> FALSE, before |-> <<>>]

DbIdle == dbAuto = FALSE /\ docStore = <<>> /\ keyGen = 1 /\ dbCall = NoDbCall

PfIdle == stProfile = None /\ wmProfile = None /\ xpDue = 0

AiIdle ==
    /\ aiVariant = "plain"
    /\ aiStorage = TRUE
    /\ aiInited = FALSE
    /\ requestCount = 0
    /\ lsUsage = None
    /\ aiCache = None
    /\ lsAiCache = None
    /\ inFlight = <<>>
    /\ sentToday = 0
    /\ lastCheckDay = None
    /\ aiCall = NoAiCall

ChIdle ==
    /\ cacheFeature = "weather"
    /\ hasLocation = FALSE
    /\ lsCache = None
    /\ featureData = None
    /\ readCall = NoRead

NtIdle ==
    /\ ntVariant = "first"
    /\ now = 0
    /\ permission = "default"
    /\ platformPermission = "default"
    /\ ctorThrows = FALSE
    /\ scheduledNotifications = <<>>
    /\ lsNotifs = None
    /\ nextId = 1
    /\ timerOn = FALSE
    /\ delivered = [id \in 1..MaxNotifs |-> 0]
    /\ lastPoll = NoPoll
    /\ pollDue = <<>>

-----------------------------------------------------------------------------
\* StorageManager.saveToLocalStorage(key, data): the write happens only while the
\* size check passes; otherwise the entry is handed to migrateToIndexedDB and the
\* call returns false
SaveSucceeds(overflow) == ~overflow

\* the object stores createSystemStores declares in systemDB
SystemStores == {"pornReports", "cleanStreak", "aiCache", "notifications"}

\* migrateToIndexedDB(key, data): saveToDB('systemDB', 'migratedData', record).
\* The transaction on a store the database does not hold raises NotFoundError,
\* which migrateToIndexedDB catches and logs: nothing is stored.
Migrate(md, key, data) ==
    IF "migratedData" \in SystemStores
    THEN Append(md, [originalKey |-> key, data |-> data])
    ELSE md

-----------------------------------------------------------------------------
\* The gamification engine as a function of its state
\*   g = [profile, ach, lsProfile, lsAch, md, call, awarded]
\* (awarded is the bookkeeping behind achXp)

GmState(profile, ach, lsP, lsA, md, call, awarded) ==
    [profile |-> profile, ach |-> ach, lsProfile |-> lsP, lsAch |-> lsA,
     md |-> md, call |-> call, awarded |-> awarded]

XpOf(profile) == IF profile = None THEN 0 ELSE Get(profile).xp

\* part_007 addXP, lines 201-210: xp and totalXP are raised in memory, then
\* window.storageManager.setToLocalStorage is called.  StorageManager defines no
\* such method, so the call raises TypeError and lines 212-228 (level update,
\* level-up handling, return value) never run.
AddXPLegacy(g, amount) ==
    IF g.profile = None
    THEN [g EXCEPT !.call = [amount |-> amount, before |-> None,
                             outcome |-> "returned", result |-> None, saved |-> FALSE]]
    ELSE LET p == Get(g.profile)
             p2 == [p EXCEPT !.xp = p.xp + amount, !.totalXP = p.totalXP + amount]
         IN [g EXCEPT !.profile = Some(p2),
                      !.call = [amount |-> amount, before |-> g.profile,
                                outcome |-> "threw", result |-> None, saved |-> FALSE]]

\* habit-engine.js addXP, lines 837-856: oldLevel is the stored level field, the
\* level is raised when the new one is higher, the profile is handed to
\* saveToLocalStorage whose result is ignored, and nothing is returned.
AddXPInjected(g, amount, overflow) ==
    IF g.profile = None
    THEN [g EXCEPT !.call = [amount |-> amount, before |-> None,
                             outcome |-> "returned", result |-> None, saved |-> FALSE]]
    ELSE LET p == Get(g.profile)
             oldLevel == p.level
             newLevel == CalculateLevelInjected(p.xp + amount)
             p2 == [xp |-> p.xp + amount, totalXP |-> p.totalXP + amount,
                    level |-> IF newLevel > oldLevel THEN newLevel ELSE oldLevel]
             ok == SaveSucceeds(overflow)
         IN [g EXCEPT !.profile = Some(p2),
                      !.lsProfile = IF ok THEN Some(p2) ELSE @,
                      !.md = IF ok THEN @ ELSE Migrate(@, "userProfile", p2),
                      !.call = [amount |-> amount, before |-> g.profile,
                                outcome |-> "returned", result |-> None, saved |-> ok]]

addXP(variant, g, amount, overflow) ==
    IF variant = "legacy" THEN AddXPLegacy(g, amount)
    ELSE AddXPInjected(g, amount, overflow)

-----------------------------------------------------------------------------
\* (mutant of UnlockAchievementLegacy) unlockAchievement without the test of the
\* unlocked flag
UnlockAchievementUnguarded(g, id, overflow) ==
    IF ~g.ach.loaded \/ id \notin AchIds
    THEN [g EXCEPT !.call = NoCall]
    ELSE LET g1 == [g EXCEPT !.ach.unlocked = @ \cup {id}]
             g1x == AddXPLegacy(g1, XpReward(id))
         IN [g1x EXCEPT !.awarded[id] = @ + XpOf(g1x.profile) - XpOf(g.profile)]

\* part_007 unlockAchievement, lines 316-333.  The flag is set before addXP is
\* awaited; an exception of addXP leaves the function before the achievements
\* list is saved.  The class of habit-engine.js defines no unlockAchievement: a
\* call of it raises TypeError at the call site and changes nothing.
UnlockAchievementLegacy(g, id, overflow) ==
    IF ~g.ach.loaded \/ id \notin AchIds \/ id \in g.ach.unlocked
    THEN [g EXCEPT !.call = NoCall]
    ELSE LET g1 == [g EXCEPT !.ach.unlocked = @ \cup {id}]
             g1x == AddXPLegacy(g1, XpReward(id))
             g2 == [g1x EXCEPT !.awarded[id] = @ + XpOf(g1x.profile) - XpOf(g.profile)]
             ok == SaveSucceeds(overflow)
         IN IF g2.call.outcome = "threw" THEN g2
            ELSE [g2 EXCEPT !.lsAch = IF ok THEN Some(g2.ach.unlocked) ELSE @,
                            !.md = IF ok THEN @
                                   ELSE Migrate(@, "achievements", g2.ach.unlocked)]

unlockAchievement(variant, g, id, overflow) ==
    IF variant = "legacy" THEN UnlockAchievementLegacy(g, id, overflow)
    ELSE [g EXCEPT !.call = [NoCall EXCEPT !.outcome = "threw"]]

\* loadAchievements (part_007 45-53, habit-engine.js 813-821): the stored list, or
\* the default catalogue with every entry locked
LoadAchievements(lsA) ==
    [loaded |-> TRUE, unlocked |-> IF lsA = None THEN {} ELSE Get(lsA)]

\* init() up to loadAchievements: the stored profile, or a fresh one at level 1
\* with 0 xp (part_007 15-37, habit-engine.js 796-806)
LoadProfile(lsP) == IF lsP = None THEN Some(Profile(0, 0, 1)) ELSE lsP

\* part_007 checkAchievements -> checkHabitAchievements (lines 397-427): the
\* unlock calls sit in one try block in the order first_habit, week_warrior, so
\* the first call that throws ends the routine.  due is the set of achievements
\* whose predicate over the stored habit logs holds.
CheckHabitAchievements(g, due, overflow) ==
    LET g1 == IF "first_habit" \in due
              THEN UnlockAchievementLegacy(g, "first_habit", overflow)
              ELSE [g EXCEPT !.call = NoCall]
    IN IF g1.call.outcome = "threw" THEN g1
       ELSE IF "week_warrior" \in due
            THEN UnlockAchievementLegacy(g1, "week_warrior", overflow)
            ELSE g1

-----------------------------------------------------------------------------
\* Actions of the gamification engine

CurrentGm == GmState(userProfile, achievements, lsProfile, lsAchievements,
                     migratedData, xpCall, achXp)

\* the variables a call of the engine leaves as g says
GmBecomes(g) ==
    /\ userProfile' = g.profile
    /\ achievements' = g.ach
    /\ lsProfile' = g.lsProfile
    /\ lsAchievements' = g.lsAch
    /\ migratedData' = g.md
    /\ everUnlocked' = everUnlocked \cup g.ach.unlocked
    /\ achXp' = g.awarded

\* room left under the bounds for a call that awards at most amount
XpRoom(amount) == userProfile # None => Get(userProfile).xp + amount <= MaxXP

\* a page load constructs a new manager: userProfile = null, achievements = []
GmConstruct ==
    /\ userProfile' = None
    /\ achievements' = [loaded |-> FALSE, unlocked |-> {}]
    /\ xpCall' = NoCall
    /\ achCall' = NoAchCall
    /\ achXp' = [id \in AchIds |-> 0]
    /\ UNCHANGED <<gmVariant, lsProfile, lsAchievements, lsOverflow, migratedData,
                   everUnlocked>>
    /\ UNCHANGED notGm

\* init(): load the profile and the achievements; part_007 then runs
\* checkAchievements
GmInit ==
    /\ userProfile = None
    /\ XpRoom(WeekWarriorReward)
    /\ \E due \in SUBSET AchIds :
         LET g0 == [CurrentGm EXCEPT !.profile = LoadProfile(lsProfile),
                                     !.ach = LoadAchievements(lsAchievements),
                                     !.call = NoCall]
             g1 == IF gmVariant = "legacy"
                   THEN CheckHabitAchievements(g0, due, lsOverflow)
                   ELSE g0
         IN /\ GmBecomes(g1)
            /\ xpCall' = g1.call
    /\ achCall' = NoAchCall
    /\ UNCHANGED <<gmVariant, lsOverflow>>
    /\ UNCHANGED notGm

\* a feature awards xp: addXP(amount)
AddXP ==
    /\ \E amount \in XpAmounts :
         /\ XpRoom(amount)
         /\ LET g == addXP(gmVariant, [CurrentGm EXCEPT !.call = NoCall], amount,
                           lsOverflow)
            IN /\ GmBecomes(g)
               /\ xpCall' = g.call
    /\ achCall' = NoAchCall
    /\ UNCHANGED <<gmVariant, lsOverflow>>
    /\ UNCHANGED notGm

\* an achievement check asks for unlockAchievement(id)
UnlockAchievement ==
    /\ \E id \in AchIds :
         /\ XpRoom(XpReward(id))
         /\ LET g == unlockAchievement(gmVariant, [CurrentGm EXCEPT !.call = NoCall],
                                       id, lsOverflow)
                xp0 == XpOf(userProfile)
                xp1 == XpOf(g.profile)
            IN /\ GmBecomes(g)
               /\ xpCall' = g.call
               /\ achCall' = [id |-> id, wasUnlocked |-> id \in achievements.unlocked,
                              xpBefore |-> xp0, xpAfter |-> xp1,
                              outcome |-> IF g.call.outcome = "threw" THEN "threw"
                                          ELSE "returned"]
    /\ UNCHANGED <<gmVariant, lsOverflow>>
    /\ UNCHANGED notGm

\* other keys grow or shrink: the size check of saveToLocalStorage starts or
\* stops failing
StorageFills ==
    /\ lsOverflow' = ~lsOverflow
    /\ UNCHANGED <<gmVariant, userProfile, achievements, lsProfile, lsAchievements,
                   migratedData, xpCall, achCall, everUnlocked, achXp>>
    /\ UNCHANGED notGm


GmStart ==
    /\ gmVariant \in GmVariants
    /\ userProfile = None
    /\ achievements = [loaded |-> FALSE, unlocked |-> {}]
    /\ \E xp \in StartXps : lsProfile = Some(StoredProfile(xp))
    /\ lsAchievements = None
    /\ lsOverflow = FALSE
    /\ migratedData = <<>>
    /\ xpCall = NoCall
    /\ achCall = NoAchCall
    /\ everUnlocked = {}
    /\ achXp = [id \in AchIds |-> 0]

GmInitState ==
    GmStart /\ LvIdle /\ NtIdle /\ HbIdle /\ KvIdle /\ TmIdle /\ ChIdle /\ AiIdle /\ DbIdle
    /\ PfIdle
GmNext == GmConstruct \/ GmInit \/ AddXP \/ UnlockAchievement \/ StorageFills
SpecGm == GmInitState /\ [][GmNext]_vars

-----------------------------------------------------------------------------
\* The level function evaluated on every xp of the bound

LvInitState ==
    /\ gmVariant \in GmVariants
    /\ GmIdle
    /\ NtIdle
    /\ HbIdle
    /\ KvIdle
    /\ TmIdle
    /\ ChIdle
    /\ AiIdle
    /\ DbIdle
    /\ PfIdle
    /\ lvXp \in 0..MaxLevelXp
    /\ lvLevel = 0

CalcLevel ==
    /\ lvLevel = 0
    /\ lvLevel' = calculateLevel(gmVariant, lvXp)
    /\ UNCHANGED <<lvXp>>
    /\ UNCHANGED notLv

SpecLevel == LvInitState /\ [][CalcLevel]_vars

-----------------------------------------------------------------------------
\* Scheduled notification queue.  Three NotificationManager classes exist:
\*   "first"   src/js/notifications.js lines 6-165
\*   "second"  src/js/notifications.js lines 171-669
\*   "slim"    src/unnamed/part_008
\* A list entry is [id, scheduledTime, status].

NtVariants == {"first", "second", "slim"}
Permissions == {"default", "granted", "denied"}

\* (mutant of IsDue) the filter without its status test
IsDueIgnoringStatus(n, t) == n.scheduledTime <= t

\* the filter of checkScheduledNotifications: status scheduled and time reached
IsDue(n, t) == n.status = "scheduled" /\ n.scheduledTime <= t

DueIds(list, t) == {list[i].id : i \in {j \in DOMAIN list : IsDue(list[j], t)}}

\* showNotification: a notification is shown only with permission granted; the
\* first and second class catch an exception of the constructor and return false,
\* the slim class lets it escape
Shows(perm, throws) == perm = "granted" /\ ~throws
Escapes(variant, perm, throws) == variant = "slim" /\ perm = "granted" /\ throws

\* checkScheduledNotifications: every due entry is handed to showNotification and
\* then marked triggered, whatever showNotification did.  In the slim class an
\* exception of the constructor leaves the forEach at the first due entry.
MarkTriggered(list, t) ==
    [i \in DOMAIN list |->
        IF IsDue(list[i], t) THEN [list[i] EXCEPT !.status = "triggered"] ELSE list[i]]

PollList(variant, list, t, perm, throws) ==
    IF Escapes(variant, perm, throws) /\ DueIds(list, t) # {} THEN list
    ELSE MarkTriggered(list, t)

PollThrows(variant, list, t, perm, throws) ==
    Escapes(variant, perm, throws) /\ DueIds(list, t) # {}

\* the poll stores the list: the slim class after every poll that did not throw,
\* the other two only when something was due
PollSaves(variant, list, t, perm, throws) ==
    IF variant = "slim" THEN ~PollThrows(variant, list, t, perm, throws)
    ELSE DueIds(list, t) # {}

PollDelivered(list, t, perm, throws, d) ==
    [id \in DOMAIN d |->
        IF id \in DueIds(list, t) /\ Shows(perm, throws) THEN d[id] + 1 ELSE d[id]]

\* loadScheduledNotifications: the stored list or []; the first and second class
\* drop the entries that are past and no longer scheduled
LoadNotifs(variant, stored, t) ==
    LET list == IF stored = None THEN <<>> ELSE Get(stored)
    IN IF variant = "slim" THEN list
       ELSE SelectSeq(list, LAMBDA n : n.scheduledTime > t \/ n.status = "scheduled")

\* saveScheduledNotifications -> saveToLocalStorage('scheduledNotifications', list)
SaveNotifs(list) ==
    /\ lsNotifs' = IF SaveSucceeds(lsOverflow) THEN Some(list) ELSE lsNotifs
    /\ migratedData' = IF SaveSucceeds(lsOverflow) THEN migratedData
                       ELSE Migrate(migratedData, "scheduledNotifications", list)

\* one run of checkScheduledNotifications on the list in memory
RunPoll(list) ==
    /\ scheduledNotifications' = PollList(ntVariant, list, now, permission, ctorThrows)
    /\ delivered' = PollDelivered(list, now, permission, ctorThrows, delivered)
    /\ lastPoll' = [ran |-> TRUE, permission |-> permission,
                    due |-> DueIds(list, now),
                    threw |-> PollThrows(ntVariant, list, now, permission, ctorThrows),
                    afterCancel |-> {}]
    /\ IF PollSaves(ntVariant, list, now, permission, ctorThrows)
       THEN SaveNotifs(PollList(ntVariant, list, now, permission, ctorThrows))
       ELSE UNCHANGED <<lsNotifs, migratedData>>

\* a page load constructs a new manager: permission 'default', empty list, no timer
NtConstruct ==
    /\ permission' = "default"
    /\ scheduledNotifications' = <<>>
    /\ timerOn' = FALSE
    /\ delivered' = [id \in DOMAIN delivered |-> 0]
    /\ lastPoll' = NoPoll
    /\ UNCHANGED <<pollDue, ntVariant, now, platformPermission, ctorThrows, lsNotifs, nextId,
                   lsOverflow, migratedData>>
    /\ UNCHANGED notNt

\* init(): take the platform permission (the second class asks the user when it
\* is 'default'), load the stored list, start the interval; the first and second
\* class poll once at once
NtInit ==
    /\ ~timerOn
    /\ \E answer \in Permissions :
         /\ answer = platformPermission
              \/ (ntVariant = "second" /\ platformPermission = "default")
         /\ platformPermission' = answer
         /\ permission' = answer
         /\ timerOn' = TRUE
         /\ LET list == LoadNotifs(ntVariant, lsNotifs, now)
            IN IF ntVariant = "slim"
               THEN /\ scheduledNotifications' = list
                    /\ UNCHANGED <<delivered, lastPoll, lsNotifs, migratedData>>
               ELSE /\ scheduledNotifications' =
                          PollList(ntVariant, list, now, answer, ctorThrows)
                    /\ delivered' = PollDelivered(list, now, answer, ctorThrows, delivered)
                    /\ lastPoll' = [ran |-> TRUE, permission |-> answer,
                                    due |-> DueIds(list, now), threw |-> FALSE,
                                    afterCancel |-> {}]
                    /\ IF DueIds(list, now) # {}
                       THEN SaveNotifs(PollList(ntVariant, list, now, answer, ctorThrows))
                       ELSE UNCHANGED <<lsNotifs, migratedData>>
    /\ UNCHANGED <<pollDue, ntVariant, now, ctorThrows, nextId, lsOverflow>>
    /\ UNCHANGED notNt

\* scheduleNotification(data): a new entry with status scheduled, then save
Schedule ==
    /\ nextId <= MaxNotifs
    /\ \E t \in 0..MaxTime :
         LET list == Append(scheduledNotifications,
                            [id |-> nextId, scheduledTime |-> t, status |-> "scheduled"])
         IN /\ scheduledNotifications' = list
            /\ SaveNotifs(list)
    /\ nextId' = nextId + 1
    /\ UNCHANGED <<pollDue, ntVariant, now, permission, platformPermission, ctorThrows, timerOn,
                   delivered, lastPoll, lsOverflow>>
    /\ UNCHANGED notNt

\* the interval fires: checkScheduledNotifications
Poll ==
    /\ timerOn
    /\ RunPoll(scheduledNotifications)
    /\ UNCHANGED <<pollDue, ntVariant, now, permission, platformPermission, ctorThrows, nextId,
                   timerOn, lsOverflow>>
    /\ UNCHANGED notNt

\* second class: cancelNotification(id) filters the entry out and saves
Cancel ==
    /\ ntVariant = "second"
    /\ \E i \in DOMAIN scheduledNotifications :
         LET list == SelectSeq(scheduledNotifications,
                               LAMBDA n : n.id # scheduledNotifications[i].id)
         IN /\ scheduledNotifications' = list
            /\ SaveNotifs(list)
    /\ UNCHANGED <<pollDue, ntVariant, now, permission, platformPermission, ctorThrows, nextId,
                   timerOn, delivered, lastPoll, lsOverflow>>
    /\ UNCHANGED notNt

\* requestPermissionWithPrompt (first, second) / requestPermission (slim): the
\* user is asked while the permission is 'default' and answers
RequestPermission ==
    /\ IF ntVariant = "slim" THEN permission = "default"
       ELSE platformPermission = "default"
    /\ \E answer \in Permissions :
         /\ platformPermission = "default" \/ answer = platformPermission
         /\ platformPermission' = answer
         /\ permission' = answer
    /\ UNCHANGED <<pollDue, ntVariant, now, ctorThrows, scheduledNotifications, lsNotifs, nextId,
                   timerOn, delivered, lastPoll, lsOverflow, migratedData>>
    /\ UNCHANGED notNt

\* time passes
Tick ==
    /\ now < MaxTime
    /\ now' = now + 1
    /\ UNCHANGED <<pollDue, ntVariant, permission, platformPermission, ctorThrows,
                   scheduledNotifications, lsNotifs, nextId, timerOn, delivered,
                   lastPoll, lsOverflow, migratedData>>
    /\ UNCHANGED notNt

\* the platform's Notification constructor starts or stops raising
PlatformBreaks ==
    /\ ctorThrows' = ~ctorThrows
    /\ UNCHANGED <<pollDue, ntVariant, now, permission, platformPermission,
                   scheduledNotifications, lsNotifs, nextId, timerOn, delivered,
                   lastPoll, lsOverflow, migratedData>>
    /\ UNCHANGED notNt

NtInitState ==
    /\ gmVariant = "legacy"
    /\ GmIdle
    /\ LvIdle
    /\ HbIdle
    /\ KvIdle
    /\ TmIdle
    /\ ChIdle
    /\ AiIdle
    /\ DbIdle
    /\ PfIdle
    /\ ntVariant \in NtVariants
    /\ now = 0
    /\ permission = "default"
    /\ platformPermission \in Permissions
    /\ ctorThrows = FALSE
    /\ scheduledNotifications = <<>>
    /\ lsNotifs = None
    /\ nextId = 1
    /\ timerOn = FALSE
    /\ delivered = [id \in 1..MaxNotifs |-> 0]
    /\ lastPoll = NoPoll
    /\ pollDue = <<>>

NtNext ==
    \/ NtConstruct \/ NtInit \/ Schedule \/ Poll \/ Cancel \/ RequestPermission
    \/ Tick \/ PlatformBreaks \/ StorageFills
SpecNt == NtInitState /\ [][NtNext]_vars

-----------------------------------------------------------------------------
\* The poll of the first and second class step by step.  checkScheduledNotifications
\* is async: it selects the due entries and, for each of them in turn, calls
\* triggerScheduledNotification (which shows the notification before it first
\* yields), awaits it, and then marks the entry triggered.  While the poll waits,
\* another call on the same manager (cancelNotification, scheduleNotification)
\* can run.

IdsOf(list) == {list[i].id : i \in DOMAIN list}

DueSeq(list, t) ==
    LET due == SelectSeq(list, LAMBDA n : IsDue(n, t))
    IN [i \in DOMAIN due |-> due[i].id]

MarkOne(list, id) ==
    [i \in DOMAIN list |->
        IF list[i].id = id THEN [list[i] EXCEPT !.status = "triggered"] ELSE list[i]]

\* the interval fires: the filter, and the first selected entry is shown
PollStart ==
    /\ timerOn
    /\ ntVariant # "slim"
    /\ pollDue = <<>>
    /\ DueIds(scheduledNotifications, now) # {}
    /\ LET due == DueSeq(scheduledNotifications, now)
       IN /\ pollDue' = due
          /\ delivered' = [delivered EXCEPT ![Head(due)] =
                               IF Shows(permission, ctorThrows) THEN @ + 1 ELSE @]
    /\ lastPoll' = [ran |-> TRUE, permission |-> permission,
                    due |-> DueIds(scheduledNotifications, now), threw |-> FALSE,
                    afterCancel |-> {}]
    /\ UNCHANGED <<ntVariant, now, permission, platformPermission, ctorThrows,
                   scheduledNotifications, lsNotifs, nextId, timerOn,
                   lsOverflow, migratedData>>
    /\ UNCHANGED notNt

\* the poll resumes: the object of the entry just shown is marked triggered, then
\* the next selected entry is shown, or after the last one the list is saved
PollStep ==
    /\ pollDue # <<>>
    /\ LET rest == Tail(pollDue)
           list == MarkOne(scheduledNotifications, Head(pollDue))
           shown == Shows(permission, ctorThrows)
       IN /\ scheduledNotifications' = list
          /\ pollDue' = rest
          /\ IF rest = <<>>
             THEN /\ SaveNotifs(list)
                  /\ UNCHANGED <<delivered, lastPoll>>
             ELSE /\ delivered' = [delivered EXCEPT ![Head(rest)] =
                                      IF shown THEN @ + 1 ELSE @]
                  /\ lastPoll' = [lastPoll EXCEPT !.afterCancel =
                                      IF shown /\ Head(rest) \notin IdsOf(list)
                                      THEN @ \cup {Head(rest)} ELSE @]
                  /\ UNCHANGED <<lsNotifs, migratedData>>
    /\ UNCHANGED <<ntVariant, now, permission, platformPermission, ctorThrows, nextId,
                   timerOn, lsOverflow>>
    /\ UNCHANGED notNt

\* a manager of the second class after init() on an empty store
NtPollInitState ==
    /\ gmVariant = "legacy"
    /\ GmIdle
    /\ LvIdle
    /\ HbIdle
    /\ KvIdle
    /\ TmIdle
    /\ ChIdle
    /\ AiIdle
    /\ DbIdle
    /\ PfIdle
    /\ ntVariant = "second"
    /\ now = 0
    /\ platformPermission \in Permissions
    /\ permission = platformPermission
    /\ ctorThrows = FALSE
    /\ scheduledNotifications = <<>>
    /\ lsNotifs = None
    /\ nextId = 1
    /\ timerOn = TRUE
    /\ delivered = [id \in 1..MaxNotifs |-> 0]
    /\ lastPoll = NoPoll
    /\ pollDue = <<>>

NtPollNext == Schedule \/ PollStart \/ PollStep \/ Cancel \/ Tick \/ StorageFills
SpecNtPoll == NtPollInitState /\ [][NtPollNext]_vars

-----------------------------------------------------------------------------
\* Habit engine (src/js/habit-engine.js, class HabitEngine), for one habit.
\* Dates: new Date().toISOString().split('T')[0] is the UTC day; toDateString()
\* is the day of the browser's local time.

UtcDay(t) == t \div HalfDaysPerDay
LocalDay(t) == (t + tzShift) \div HalfDaysPerDay

\* the xpValue of the habit (difficulty medium)
HabitXp == XpMedium
\* handleAddHabit awards this for the first habit
FirstHabitCreatedXp == 25
\* checkHabitAchievements: completed logs in the last WeekDays days, streak length
WeekDays == 7
WeekWarriorCount == 7

StreakRec(cur, best, last, total) ==
    [currentStreak |-> cur, bestStreak |-> best, lastCompleted |-> last,
     totalCompletions |-> total]

\* initializeStreak / the record updateStreak starts from when none is held
NewStreak == StreakRec(0, 0, None, 0)

\* const yesterdayLog = this.habitLogs.find(log => log.date === yesterdayStr &&
\*                                           log.status === 'completed')
\* with yesterdayStr the UTC day of the instant one day before now
HasCompletedLog(logs, day) ==
    \E i \in DOMAIN logs : logs[i].date = day /\ logs[i].status = "completed"

\* (mutant of UpdateStreak) a broken streak restarts at 0 instead of 1
UpdateStreakResetsToZero(st, logs, completed, t) ==
    IF completed
    THEN LET cur == IF HasCompletedLog(logs, UtcDay(t - HalfDaysPerDay))
                       \/ st.currentStreak = 0
                    THEN st.currentStreak + 1
                    ELSE 0
         IN [currentStreak |-> cur,
             bestStreak |-> IF cur > st.bestStreak THEN cur ELSE st.bestStreak,
             lastCompleted |-> Some(t),
             totalCompletions |-> st.totalCompletions + 1]
    ELSE IF st.lastCompleted # None /\ LocalDay(Get(st.lastCompleted)) = LocalDay(t)
         THEN [st EXCEPT !.currentStreak = IF @ - 1 > 0 THEN @ - 1 ELSE 0]
         ELSE st

\* (mutant of UpdateStreak) the best streak is not raised with the current one
UpdateStreakKeepsBest(st, logs, completed, t) ==
    IF completed
    THEN LET cur == IF HasCompletedLog(logs, UtcDay(t - HalfDaysPerDay))
                       \/ st.currentStreak = 0
                    THEN st.currentStreak + 1
                    ELSE 1
         IN [currentStreak |-> cur,
             bestStreak |-> st.bestStreak,
             lastCompleted |-> Some(t),
             totalCompletions |-> st.totalCompletions + 1]
    ELSE IF st.lastCompleted # None /\ LocalDay(Get(st.lastCompleted)) = LocalDay(t)
         THEN [st EXCEPT !.currentStreak = IF @ - 1 > 0 THEN @ - 1 ELSE 0]
         ELSE st

\* (mutant of UpdateStreak) an un-completion lowers the streak whenever it was
\* completed before, today or not
UpdateStreakLowersAnyDay(st, logs, completed, t) ==
    IF completed
    THEN LET cur == IF HasCompletedLog(logs, UtcDay(t - HalfDaysPerDay))
                       \/ st.currentStreak = 0
                    THEN st.currentStreak + 1
                    ELSE 1
         IN [currentStreak |-> cur,
             bestStreak |-> IF cur > st.bestStreak THEN cur ELSE st.bestStreak,
             lastCompleted |-> Some(t),
             totalCompletions |-> st.totalCompletions + 1]
    ELSE IF st.lastCompleted # None
         THEN [st EXCEPT !.currentStreak = IF @ - 1 > 0 THEN @ - 1 ELSE 0]
         ELSE st

\* updateStreak(habitId, completed), lines 290-336, on the record st; logs is
\* this.habitLogs after toggleHabit has put today's log in
UpdateStreak(st, logs, completed, t) ==
    IF completed
    THEN LET cur == IF HasCompletedLog(logs, UtcDay(t - HalfDaysPerDay))
                       \/ st.currentStreak = 0
                    THEN st.currentStreak + 1
                    ELSE 1
         IN [currentStreak |-> cur,
             bestStreak |-> IF cur > st.bestStreak THEN cur ELSE st.bestStreak,
             lastCompleted |-> Some(t),
             totalCompletions |-> st.totalCompletions + 1]
    ELSE IF st.lastCompleted # None /\ LocalDay(Get(st.lastCompleted)) = LocalDay(t)
         THEN [st EXCEPT !.currentStreak = IF @ - 1 > 0 THEN @ - 1 ELSE 0]
         ELSE st

\* toggleHabit, lines 254-263: the log of (habit, today) in this.habitLogs is
\* replaced, or the new log is pushed
FirstIndex(logs, day) ==
    IF \E i \in DOMAIN logs : logs[i].date = day
    THEN CHOOSE i \in DOMAIN logs :
            /\ logs[i].date = day
            /\ \A j \in 1..(i - 1) : logs[j].date # day
    ELSE 0

PutLog(logs, log) ==
    IF FirstIndex(logs, log.date) > 0
    THEN [logs EXCEPT ![FirstIndex(logs, log.date)] = log]
    ELSE Append(logs, log)

\* HabitEngine.checkHabitAchievements, lines 341-376, after a completion.  An
\* exception of unlockAchievement leaves the routine.
CompletedOn(logs, day) ==
    Cardinality({i \in DOMAIN logs : logs[i].date = day /\ logs[i].status = "completed"})

\* new Date(log.date) is 00:00 UTC of the log's day; lastWeek is WeekDays days
\* before now
CompletedSince(logs, t) ==
    Cardinality({i \in DOMAIN logs :
                    /\ logs[i].date * HalfDaysPerDay >= t - WeekDays * HalfDaysPerDay
                    /\ logs[i].status = "completed"})

HabitCheckAchievements(variant, g, logs, st, t, overflow) ==
    LET g1 == IF CompletedOn(logs, UtcDay(t)) = 1
              THEN unlockAchievement(variant, g, "first_habit", overflow)
              ELSE g
        weekDue == \/ CompletedSince(logs, t) >= WeekWarriorCount
                   \/ st.currentStreak >= WeekWarriorCount
    IN IF g1.call.outcome = "threw" THEN g1
       ELSE IF weekDue THEN unlockAchievement(variant, g1, "week_warrior", overflow)
            ELSE g1

\* the award part of toggleHabit, lines 268-277: addXP, then the achievement
\* check unless addXP threw (the catch of toggleHabit ends the call)
AwardCompletion(variant, g, logs, st, t, overflow) ==
    LET g1 == addXP(variant, [g EXCEPT !.call = NoCall], HabitXp, overflow)
    IN IF g1.call.outcome = "threw" THEN g1
       ELSE HabitCheckAchievements(variant, g1, logs, st, t, overflow)

-----------------------------------------------------------------------------
\* Actions of the habit engine

\* handleAddHabit: the habit is stored, its streak record initialised
\* (initializeStreak), and the first habit earns xp
AddHabit ==
    /\ ~habitExists
    /\ XpRoom(FirstHabitCreatedXp)
    /\ habitExists' = TRUE
    /\ streak' = Some(NewStreak)
    /\ dbStreak' = Some(NewStreak)
    /\ LET g == addXP(gmVariant, [CurrentGm EXCEPT !.call = NoCall],
                      FirstHabitCreatedXp, lsOverflow)
       IN /\ GmBecomes(g)
          /\ xpCall' = g.call
    /\ achCall' = NoAchCall
    /\ hbCall' = NoToggle
    /\ UNCHANGED <<clock, tzShift, habitLogs, dbLogs, xpAwards, doneDays, gmVariant,
                   lsOverflow>>
    /\ UNCHANGED notHb

\* toggleHabit(habitId, completed)
ToggleHabit ==
    /\ habitExists
    /\ Len(dbLogs) < MaxLogs
    /\ \E completed \in BOOLEAN :
         LET log == [date |-> UtcDay(clock),
                     status |-> IF completed THEN "completed" ELSE "pending"]
             logs == PutLog(habitLogs, log)
             st0 == IF streak = None THEN NewStreak ELSE Get(streak)
             st1 == UpdateStreak(st0, logs, completed, clock)
             g == IF completed
                  THEN AwardCompletion(gmVariant, CurrentGm, logs, st1, clock, lsOverflow)
                  ELSE [CurrentGm EXCEPT !.call = NoCall]
         IN /\ completed => XpRoom(HabitXp + FirstHabitReward + WeekWarriorReward)
            /\ dbLogs' = Append(dbLogs, log)
            /\ habitLogs' = logs
            /\ streak' = Some(st1)
            /\ dbStreak' = Some(st1)
            /\ GmBecomes(g)
            /\ xpCall' = g.call
            /\ hbCall' = [kind |-> "toggle", completed |-> completed, at |-> clock,
                          before |-> Some(st0), logsBefore |-> habitLogs]
            /\ xpAwards' = IF XpOf(g.profile) > XpOf(userProfile)
                           THEN [xpAwards EXCEPT ![UtcDay(clock)] = @ + 1]
                           ELSE xpAwards
            /\ doneDays' = IF completed
                           THEN [utc |-> doneDays.utc \cup {UtcDay(clock)},
                                 local |-> doneDays.local \cup {LocalDay(clock)}]
                           ELSE doneDays
    /\ achCall' = NoAchCall
    /\ UNCHANGED <<clock, tzShift, habitExists, gmVariant, lsOverflow>>
    /\ UNCHANGED notHb

\* a page load: a new HabitEngine whose loadData reads everything back
HbLoadData ==
    /\ habitLogs' = dbLogs
    /\ streak' = dbStreak
    /\ hbCall' = NoToggle
    /\ UNCHANGED <<clock, tzShift, habitExists, dbLogs, dbStreak, xpAwards, doneDays>>
    /\ UNCHANGED <<gmVars, notHb>>

\* half a day passes
HbTick ==
    /\ clock < MaxClock
    /\ clock' = clock + 1
    /\ hbCall' = NoToggle
    /\ UNCHANGED <<tzShift, habitExists, habitLogs, dbLogs, streak, dbStreak, xpAwards,
                   doneDays>>
    /\ UNCHANGED <<gmVars, notHb>>

\* the gamification engine the habit engine is given has run init()
HbInitState ==
    /\ gmVariant \in GmVariants
    /\ userProfile = Some(Profile(0, 0, 1))
    /\ achievements = [loaded |-> TRUE, unlocked |-> {}]
    /\ lsProfile = Some(Profile(0, 0, 1))
    /\ lsAchievements = None
    /\ lsOverflow = FALSE
    /\ migratedData = <<>>
    /\ xpCall = NoCall
    /\ achCall = NoAchCall
    /\ everUnlocked = {}
    /\ achXp = [id \in AchIds |-> 0]
    /\ LvIdle
    /\ NtIdle
    /\ KvIdle
    /\ TmIdle
    /\ ChIdle
    /\ AiIdle
    /\ DbIdle
    /\ PfIdle
    /\ clock = 0
    /\ tzShift \in {0, 1}
    /\ habitExists = FALSE
    /\ habitLogs = <<>>
    /\ dbLogs = <<>>
    /\ streak = None
    /\ dbStreak = None
    /\ hbCall = NoToggle
    /\ xpAwards = NoAwards
    /\ doneDays = NoDays

HbNext == AddHabit \/ ToggleHabit \/ HbLoadData \/ HbTick
SpecHb == HbInitState /\ [][HbNext]_vars

-----------------------------------------------------------------------------
\* Claims about the gamification engine (SpecGm) and the level function (SpecLevel)

\* floor(sqrt(xp / 100)) + 1 as the specification writes it
FormulaLevel(xp) ==
    (CHOOSE k \in 0..xp : 100 * k * k <= xp /\ xp < 100 * (k + 1) * (k + 1)) + 1

\* the last call was addXP itself, made on an initialised engine
AddXPWasCalled ==
    /\ xpCall.outcome # "none"
    /\ xpCall.before # None
    /\ achCall.outcome = "none"
    /\ userProfile # None

\* C5: addXP(amount) returns {oldLevel, newLevel, totalXp}: oldLevel is the level of
\* the xp held before the call, totalXp the xp held after it and newLevel the level
\* of that totalXp.
C5_AddXPReturnsLevels ==
    AddXPWasCalled =>
        /\ xpCall.outcome = "returned"
        /\ xpCall.result =
             Some([oldLevel |-> calculateLevel(gmVariant, Get(xpCall.before).xp),
                   newLevel |-> calculateLevel(gmVariant, Get(userProfile).xp),
                   totalXp |-> Get(userProfile).xp])

\* C6: for every xp >= 0 the level the engine computes is floor(sqrt(xp / 100)) + 1.
C6_LevelIsFloorSqrt ==
    lvLevel # 0 => lvLevel = FormulaLevel(lvXp)

\* C7: whenever an addXP call has returned, the profile stored in the key-value
\* store holds the xp, totalXP and level the call produced.
C7_PersistedBeforeReturn ==
    (AddXPWasCalled /\ xpCall.outcome = "returned") => lsProfile = userProfile

\* C8: when persisting the profile fails during addXP, no XP stays added in memory:
\* after the call either the stored profile is the profile in memory (persistence
\* was made to succeed) or the profile in memory is the one before the call.
C8_NoPartialXP ==
    AddXPWasCalled => (lsProfile = userProfile \/ userProfile = xpCall.before)

\* C9: unlockAchievement(id) is idempotent: a call on an unlocked achievement
\* changes no xp, and over any number of calls the xp added for an id is its
\* xpReward exactly once while it is unlocked and 0 while it is locked.
C9_UnlockIdempotent ==
    /\ \A id \in AchIds :
         achXp[id] = IF id \in achievements.unlocked THEN XpReward(id) ELSE 0
    /\ (achCall.outcome # "none" /\ achCall.wasUnlocked) =>
         /\ achCall.xpAfter = achCall.xpBefore
         /\ achCall.outcome = "returned"

\* C9 witness: a second call for an id the first call unlocked and rewarded
C9_SecondCallSeen ==
    /\ achCall.outcome = "returned"
    /\ achCall.wasUnlocked
    /\ achXp[achCall.id] = XpReward(achCall.id)
    /\ XpOf(userProfile) >= XpReward(achCall.id)

\* C10: an achievement's unlocked flag, once true, is never false again, in the
\* list in memory or in the persisted list.
C10_NeverRelocked ==
    \A id \in everUnlocked :
        /\ achievements.loaded => id \in achievements.unlocked
        /\ lsAchievements # None => id \in Get(lsAchievements)

-----------------------------------------------------------------------------
\* Claims about the scheduled notification queue (SpecNt)

EntryStatus(id) ==
    {scheduledNotifications[i].status :
        i \in {j \in DOMAIN scheduledNotifications : scheduledNotifications[j].id = id}}

C4_KeptWhenNotGranted ==
    (lastPoll.ran /\ lastPoll.permission # "granted") =>
        \A id \in lastPoll.due : EntryStatus(id) \subseteq {"scheduled"}

\* C23: a failure while a poll delivers a due entry is caught inside the poll and
\* does not leave the timer callback.
C23_PollNeverThrows ==
    lastPoll.ran => ~lastPoll.threw

\* C26: once cancelNotification(id) has removed an entry, no poll delivers it, a
\* poll that had selected the entry before the cancel included.
C26_NoDeliveryAfterCancel ==
    lastPoll.afterCancel = {}

-----------------------------------------------------------------------------
\* Claims about the streak of a habit

CompletionJustRecorded == hbCall.kind = "toggle" /\ hbCall.completed

\* C1 (as stated): a completion on date D raises currentStreak by exactly 1
\* when the last completed date is the day before D or this is the very first
\* completion, and sets it to 1 in every other case.
C1_StreakFollowsLastCompleted ==
    CompletionJustRecorded =>
        LET before == Get(hbCall.before)
            D == UtcDay(hbCall.at)
            cur == Get(streak).currentStreak
        IN IF \/ before.lastCompleted = None
              \/ UtcDay(Get(before.lastCompleted)) = D - 1
           THEN cur = before.currentStreak + 1
           ELSE cur = 1

\* C1 (amended): a completion on date D raises currentStreak by exactly 1 when
\* the log list in memory holds a completed log of the habit for the day before
\* D or currentStreak is 0, and sets it to 1 in every other case; it is never 0
\* after a completion.
C1_StreakFollowsYesterdayLog ==
    CompletionJustRecorded =>
        LET before == Get(hbCall.before)
            D == UtcDay(hbCall.at)
            cur == Get(streak).currentStreak
            yesterdayDone ==
                \E i \in DOMAIN hbCall.logsBefore :
                    /\ hbCall.logsBefore[i].date = D - 1
                    /\ hbCall.logsBefore[i].status = "completed"
        IN /\ cur >= 1
           /\ IF yesterdayDone \/ before.currentStreak = 0
              THEN cur = before.currentStreak + 1
              ELSE cur = 1

\* C1, the case seen: after a streak of two a day was skipped, and the next
\* completion gave {current, best} = {1, 2}
C1_ResetAfterSkippedDay ==
    /\ CompletionJustRecorded
    /\ Get(hbCall.before).currentStreak = 2
    /\ Get(hbCall.before).lastCompleted # None
    /\ UtcDay(Get(Get(hbCall.before).lastCompleted)) = UtcDay(hbCall.at) - 2
    /\ Get(streak).currentStreak = 1
    /\ Get(streak).bestStreak = 2

\* C2: in every streak record, in memory and stored, bestStreak >= currentStreak
\* after every operation.
C2_BestAtLeastCurrent ==
    /\ streak # None => Get(streak).bestStreak >= Get(streak).currentStreak
    /\ dbStreak # None => Get(dbStreak).bestStreak >= Get(dbStreak).currentStreak

\* C2, the case seen: completions raised the streak to 2 and an un-completion
\* lowered it again, the best streak staying at 2
C2_LoweredBelowBest ==
    /\ hbCall.kind = "toggle"
    /\ ~hbCall.completed
    /\ Get(hbCall.before).currentStreak = 2
    /\ Get(streak).currentStreak = 1
    /\ Get(streak).bestStreak = 2
    /\ dbStreak = streak

C27_CompletionXpOncePerDay == \A d \in HabitDays : xpAwards[d] <= 1

\* C28: the streak counters of the habit, in memory and stored, never exceed the
\* number of distinct calendar days on which the habit was completed (by the
\* calendar, UTC or local, that counts more of them).
DistinctDaysDone ==
    IF Cardinality(doneDays.utc) > Cardinality(doneDays.local)
    THEN Cardinality(doneDays.utc) ELSE Cardinality(doneDays.local)

C28_StreakWithinDaysDone ==
    /\ streak # None => Get(streak).currentStreak <= DistinctDaysDone
    /\ dbStreak # None => Get(dbStreak).currentStreak <= DistinctDaysDone

\* C30: the stored habit logs hold at most one log for the habit and a date, and
\* they are the logs held in memory, so that the completed logs counted from
\* either are as many.
CompletedLogs(logs) == {i \in DOMAIN logs : logs[i].status = "completed"}

C30_StoredLogsOnePerDate ==
    /\ \A i, j \in DOMAIN dbLogs : dbLogs[i].date = dbLogs[j].date => i = j
    /\ Len(dbLogs) = Len(habitLogs)
    /\ {dbLogs[i] : i \in DOMAIN dbLogs} = {habitLogs[i] : i \in DOMAIN habitLogs}
    /\ Cardinality(CompletedLogs(dbLogs)) = Cardinality(CompletedLogs(habitLogs))

-----------------------------------------------------------------------------
\* Key-value store (src/js/storage-manager.js, the localStorage half of
\* StorageManager).  A value is its data and the length of its JSON text.

\* this.maxLocalStorageSize
maxLocalStorageSize == 5 * 1024 * 1024

\* key.length
KeyLen(k) ==
    CASE k = "userProfile" -> 11
      [] k = "onboardingComplete" -> 18

\* the lengths of the values written: a small one, and one that fills the store
\* up to SmallLen below the ceiling when it sits alone under 'userProfile'
BigLen == maxLocalStorageSize - KeyLen("userProfile") - SmallLen
ValueLens == {SmallLen, BigLen}
KvData == 1..MaxData

\* the browser's own limit: the ceiling itself, or twice as much
PlatformQuotas == {maxLocalStorageSize, 2 * maxLocalStorageSize}

\* getLocalStorageSize(): the sum of value length + key length over the keys held
RECURSIVE SizeOver(_, _)
SizeOver(ls, keys) ==
    IF keys = {} THEN 0
    ELSE LET k == CHOOSE x \in keys : TRUE
         IN KeyLen(k) + Get(ls[k]).len + SizeOver(ls, keys \ {k})

getLocalStorageSize(ls) == SizeOver(ls, {k \in KvKeys : ls[k] # None})

\* localStorage.setItem(key, value): the browser refuses an item that would take
\* the store past its quota
SetItemRaises(ls, quota, key, len) ==
    getLocalStorageSize([ls EXCEPT ![key] = Some([data |-> 0, len |-> len])]) > quota

\* saveToLocalStorage(key, data), lines 363-383: true iff the item was written
SaveWrites(ls, quota, key, len) ==
    /\ ~(getLocalStorageSize(ls) + len > maxLocalStorageSize)
    /\ ~SetItemRaises(ls, quota, key, len)

\* getFromLocalStorage(key): the parsed value, or null
getFromLocalStorage(ls, key) ==
    IF ls[key] = None THEN None ELSE Some(Get(ls[key]).data)

\* migrateToIndexedDB(key, data) at time t: the record it puts, if the store
\* 'migratedData' exists; otherwise saveToDB raises and the error is logged
MigrateAt(md, key, data, t) ==
    IF "migratedData" \in SystemStores
    THEN Append(md, [originalKey |-> key, data |-> data, migratedAt |-> t])
    ELSE md

\* restoreData, lines 503-508: setItem for every entry of the backup, in order;
\* the first setItem that raises ends the restore
RECURSIVE RestoreInto(_, _, _)
RestoreInto(ls, quota, backup) ==
    IF backup = <<>> THEN ls
    ELSE LET e == Head(backup)
         IN IF SetItemRaises(ls, quota, e.key, e.len) THEN ls
            ELSE RestoreInto([ls EXCEPT ![e.key] = Some([data |-> e.data, len |-> e.len])],
                             quota, Tail(backup))

BackupEntries == [key : KvKeys, data : KvData, len : ValueLens]
\* the entries of a backup are the properties of one object: their keys differ
Backups ==
    {b \in UNION {[1..n -> BackupEntries] : n \in 1..MaxBackup} :
        \A i, j \in DOMAIN b : i # j => b[i].key # b[j].key}

-----------------------------------------------------------------------------
\* Actions on the key-value store

KvSave ==
    \E key \in KvKeys, data \in KvData, len \in ValueLens :
        LET ok == SaveWrites(localStorage, platformQuota, key, len)
        IN /\ localStorage' = IF ok
                              THEN [localStorage EXCEPT
                                       ![key] = Some([data |-> data, len |-> len])]
                              ELSE localStorage
           /\ migratedData' = IF ok THEN migratedData
                              ELSE MigrateAt(migratedData, key, data, now)
           /\ redirected' = [redirected EXCEPT
                                ![key] = IF ok THEN None ELSE Some(data)]
           /\ kvCall' = [op |-> "save", key |-> key, data |-> data, len |-> len,
                         redirected |-> ~ok, returned |-> ok, at |-> now]
           /\ UNCHANGED <<hasRun, platformQuota, now>>
           /\ UNCHANGED notKv

\* removeFromLocalStorage(key)
KvRemove ==
    \E key \in KvKeys :
        /\ localStorage[key] # None
        /\ localStorage' = [localStorage EXCEPT ![key] = None]
        /\ redirected' = [redirected EXCEPT ![key] = None]
        /\ kvCall' = [NoKvCall EXCEPT !.op = "remove", !.key = key,
                                      !.returned = TRUE, !.at = now]
        /\ UNCHANGED <<hasRun, platformQuota, migratedData, now>>
        /\ UNCHANGED notKv

\* restoreData(file), the localStorage part
KvRestore ==
    \E backup \in Backups :
        /\ localStorage' = RestoreInto(localStorage, platformQuota, backup)
        /\ redirected' = [k \in KvKeys |->
                            IF localStorage'[k] # localStorage[k] THEN None
                            ELSE redirected[k]]
        /\ kvCall' = [NoKvCall EXCEPT !.op = "restore", !.at = now]
        /\ UNCHANGED <<hasRun, platformQuota, migratedData, now>>
        /\ UNCHANGED notKv

\* clearAllData(): localStorage.clear() and the databases deleted
KvClearAll ==
    /\ localStorage # [k \in KvKeys |-> None] \/ migratedData # <<>>
    /\ localStorage' = [k \in KvKeys |-> None]
    /\ migratedData' = <<>>
    /\ redirected' = [k \in KvKeys |-> None]
    /\ kvCall' = [NoKvCall EXCEPT !.op = "clear", !.returned = TRUE, !.at = now]
    /\ UNCHANGED <<hasRun, platformQuota, now>>
    /\ UNCHANGED notKv

\* The pages' entry points: main() of mental-tracker.js, App.init() of main.js
\* and of mental-tracker.js, the DOMContentLoaded handler of onboarding.js
EntryPoints == {"main", "App", "onboardingPage"}

\* where a page load ends. initIndexedDB() finds no 'firstTimeSetup' entry equal
\* to false (none is ever stored), runs resetAllDatabases() and then calls
\* this.setToLocalStorage, which StorageManager does not define: it throws.
StartupOutcome(entry, ls) ==
    LET done == getFromLocalStorage(ls, "onboardingComplete") # None
    IN CASE entry = "main" -> "fatalError"
         [] entry = "App" -> IF done THEN "error" ELSE "onboarding"
         [] OTHER -> IF done THEN "dashboard" ELSE "onboarding"

\* initIndexedDB() is reached: always in main(), after the onboarding check in
\* App.init(), never on the onboarding page
RunsInitIndexedDB(entry, ls) ==
    \/ entry = "main"
    \/ entry = "App" /\ getFromLocalStorage(ls, "onboardingComplete") # None

\* initIndexedDB() raises: its call of this.setToLocalStorage is a call of
\* undefined, and the catch block rethrows
InitIndexedDBRaises == TRUE

\* what a page ends with once the onboarding flag has been read
AfterOnboardingCheck(done) ==
    IF done THEN <<"loadDashboardData", "initializeSecondaryManagers">>
    ELSE <<"redirectToOnboarding">>

\* (mutant of StartupSteps) main() goes on after the fatal error is shown
StartupStepsGoOn(entry, ls) ==
    LET done == getFromLocalStorage(ls, "onboardingComplete") # None
    IN IF entry = "main"
       THEN <<"initIndexedDB", "showFatalError", "onboardingCheck">>
            \o AfterOnboardingCheck(done)
       ELSE <<"onboardingCheck">> \o AfterOnboardingCheck(done)

\* the steps of a page load, in order: main() awaits initIndexedDB() first and
\* returns after showFatalError; App.init() reads the flag first and shows its
\* error modal when initIndexedDB() raises; the onboarding page reads the flag
StartupSteps(entry, ls) ==
    LET done == getFromLocalStorage(ls, "onboardingComplete") # None
    IN CASE entry = "main" ->
              <<"initIndexedDB">> \o
              (IF InitIndexedDBRaises THEN <<"showFatalError">>
               ELSE <<"onboardingCheck">> \o AfterOnboardingCheck(FALSE))
         [] entry = "App" ->
              <<"onboardingCheck">> \o
              (IF ~done THEN <<"redirectToOnboarding">>
               ELSE <<"initIndexedDB">> \o
                    (IF InitIndexedDBRaises THEN <<"showError">>
                     ELSE <<"loadDashboardData">>))
         [] OTHER -> <<"onboardingCheck">> \o
                     (IF done THEN <<"redirectToDashboard">> ELSE <<"showOnboarding">>)

\* a page load; deleted: the deleteDatabase requests of resetAllDatabases() all
\* succeed (or are blocked), so that localStorage.clear() is reached
KvStartup ==
    \E entry \in EntryPoints, deleted \in BOOLEAN :
        LET wiped == RunsInitIndexedDB(entry, localStorage) /\ deleted
        IN /\ localStorage' = IF wiped THEN [k \in KvKeys |-> None] ELSE localStorage
           /\ redirected' = IF wiped THEN [k \in KvKeys |-> None] ELSE redirected
           /\ migratedData' = IF wiped THEN <<>> ELSE migratedData
           /\ hasRun' = TRUE
           /\ kvCall' = [NoKvCall EXCEPT !.op = "startup", !.entry = entry,
                                         !.afterClear = (kvCall.op = "clear"),
                                         !.outcome = StartupOutcome(entry, localStorage),
                                         !.steps = StartupSteps(entry, localStorage),
                                         !.firstRun = ~hasRun,
                                         !.reachedInit =
                                             RunsInitIndexedDB(entry, localStorage),
                                         !.lost = /\ wiped
                                                  /\ localStorage # [k \in KvKeys |-> None],
                                         !.at = now]
           /\ UNCHANGED <<platformQuota, now>>  
           /\ UNCHANGED notKv

KvTick ==
    /\ now < MaxTime
    /\ now' = now + 1
    /\ kvCall' = NoKvCall
    /\ UNCHANGED <<localStorage, hasRun, platformQuota, redirected, migratedData>>
    /\ UNCHANGED notKv

KvInitState ==
    /\ gmVariant = "legacy"
    /\ GmIdle
    /\ LvIdle
    /\ HbIdle
    /\ NtIdle
    /\ TmIdle
    /\ ChIdle
    /\ AiIdle
    /\ DbIdle
    /\ PfIdle
    /\ localStorage = [k \in KvKeys |-> None]
    /\ platformQuota \in PlatformQuotas
    /\ hasRun = FALSE
    /\ redirected = [k \in KvKeys |-> None]
    /\ kvCall = NoKvCall

KvNext == KvSave \/ KvRemove \/ KvRestore \/ KvClearAll \/ KvStartup \/ KvTick
SpecKv == KvInitState /\ [][KvNext]_vars

-----------------------------------------------------------------------------
\* Claims about the key-value store (SpecKv)

\* C11: when a saveToLocalStorage(key, data) would push the usage past the
\* ceiling, the entry is in the migration collection afterwards, as a record
\* holding the original key, the data and the time of the migration.
C11_OverflowIsMigrated ==
    (kvCall.op = "save" /\ kvCall.redirected) =>
        \E i \in DOMAIN migratedData :
            /\ migratedData[i].originalKey = kvCall.key
            /\ migratedData[i].data = kvCall.data
            /\ migratedData[i].migratedAt = kvCall.at

\* C12: after a saveToLocalStorage(key, data) that was redirected to the migration
\* collection, getFromLocalStorage(key) returns null or the data just written,
\* never another value.
C12_NoOtherValueAfterRedirect ==
    \A k \in KvKeys :
        redirected[k] # None =>
            getFromLocalStorage(localStorage, k) \in {None, redirected[k]}

\* C13: the total size of the entries of the key-value store never exceeds the
\* ceiling of 5 MiB.
C13_SizeWithinCeiling ==
    getLocalStorageSize(localStorage) <= maxLocalStorageSize

\* C21: a startup that is not the first run leaves the stored key-value entries
\* intact.
C21_LaterStartupKeepsData ==
    (kvCall.op = "startup" /\ ~kvCall.firstRun) => ~kvCall.lost

\* C22: when the storage initialization fails at startup, what follows it is the
\* display of an error and nothing else: no onboarding check, no dashboard load,
\* no initialization of the secondary managers.
C22_InitFailureHaltsStartup ==
    kvCall.op = "startup" =>
        \A i \in DOMAIN kvCall.steps :
            kvCall.steps[i] = "initIndexedDB" =>
                /\ i + 1 \in DOMAIN kvCall.steps
                /\ \A j \in DOMAIN kvCall.steps :
                       j > i => kvCall.steps[j] \in {"showFatalError", "showError"}

\* C22, the case seen: main() with initIndexedDB() raising
C22_FatalErrorShown ==
    /\ kvCall.op = "startup"
    /\ kvCall.entry = "main"
    /\ kvCall.steps = <<"initIndexedDB", "showFatalError">>

\* C20: clear-all-data deletes the user profile and the onboarding-completion
\* flag, and the page load that follows it sends the user to onboarding.
C20_ClearAllForcesOnboarding ==
    /\ kvCall.op = "clear" =>
          /\ getFromLocalStorage(localStorage, "userProfile") = None
          /\ getFromLocalStorage(localStorage, "onboardingComplete") = None
    /\ (kvCall.op = "startup" /\ kvCall.afterClear) => kvCall.outcome = "onboarding"

-----------------------------------------------------------------------------
\* Cached network features: WeatherManager (src/js/weather.js) and
\* PrayerTimesManager (src/js/prayer-times.js).  Time is counted in hours.

CacheFeatures == {"weather", "prayer"}

\* this.cacheExpiry, in hours
WeatherTtlHours == 1
PrayerTtlHours == 24
cacheExpiry(feature) == IF feature = "weather" THEN WeatherTtlHours ELSE PrayerTtlHours

\* the clock moves by an hour, or by an hour less than a day
OneHour == 1
ClockSteps == {OneHour, PrayerTtlHours - OneHour}

\* isCacheValid(timestamp) / the test in WeatherManager.init:
\*   now - new Date(timestamp).getTime() < this.cacheExpiry
isCacheValid(timestamp, t, ttl) == (t - timestamp) < ttl

\* cached && isCacheValid(cached.timestamp)
HasValidEntry(entry, t, ttl) ==
    entry # None /\ isCacheValid(Get(entry).timestamp, t, ttl)

\* fetchWeather / fetchPrayerTimes when the request fails: fetchWeather lets the
\* error out (lines 52-53, 67), fetchPrayerTimes catches it, logs it and shows its
\* error state (lines 86-90)
FetchRaises(feature) == feature = "weather"

\* the cache entry after a fetch that succeeded: saveToLocalStorage writes it
\* unless the store is full
CacheAfterFetch(entry, data, t, overflow) ==
    IF SaveSucceeds(overflow) THEN Some([data |-> data, timestamp |-> t]) ELSE entry

-----------------------------------------------------------------------------
\* Actions of the cached features

\* init(): the cached read.  ok and data are what the network answers.
CacheInit ==
    /\ \E ok \in BOOLEAN, data \in KvData :
           LET ttl == cacheExpiry(cacheFeature)
               valid == HasValidEntry(lsCache, hour, ttl)
           IN IF ~hasLocation
              THEN /\ readCall' = [NoRead EXCEPT !.kind = "init", !.at = hour,
                                                 !.valid = valid, !.outcome = "skipped"]
                   /\ UNCHANGED <<lsCache, featureData>>
              ELSE IF valid
              THEN /\ featureData' = Some(Get(lsCache).data)
                   /\ readCall' = [NoRead EXCEPT !.kind = "init", !.at = hour,
                                                 !.valid = TRUE, !.outcome = "cached",
                                                 !.value = Some(Get(lsCache).data)]
                   /\ UNCHANGED lsCache
              ELSE IF ok
              THEN /\ featureData' = Some(data)
                   /\ lsCache' = CacheAfterFetch(lsCache, data, hour, lsOverflow)
                   /\ readCall' = [NoRead EXCEPT !.kind = "init", !.at = hour,
                                                 !.producerCalled = TRUE,
                                                 !.outcome = "fetched",
                                                 !.value = Some(data)]
              ELSE /\ readCall' = [NoRead EXCEPT !.kind = "init", !.at = hour,
                                                 !.producerCalled = TRUE,
                                                 !.producerFailed = TRUE,
                                                 !.producerRaised = FetchRaises(cacheFeature),
                                                 !.outcome = "errorState"]
                   /\ UNCHANGED <<lsCache, featureData>>
    /\ UNCHANGED <<cacheFeature, hasLocation, lsOverflow, tmVars>>
    /\ UNCHANGED notCh

\* a page load: a new manager, nothing in memory
CacheReload ==
    /\ featureData # None
    /\ featureData' = None
    /\ readCall' = NoRead
    /\ UNCHANGED <<cacheFeature, hasLocation, lsCache, lsOverflow, tmVars>>
    /\ UNCHANGED notCh

\* the store fills up or is freed by other writers
CacheStorageFills ==
    /\ lsOverflow' = ~lsOverflow
    /\ readCall' = NoRead
    /\ UNCHANGED <<cacheFeature, hasLocation, lsCache, featureData, tmVars>>
    /\ UNCHANGED notCh

CacheTick ==
    \E step \in ClockSteps :
        /\ hour + step <= MaxHour
        /\ hour' = hour + step
        /\ readCall' = NoRead
        /\ UNCHANGED <<tzHours, cacheFeature, hasLocation, lsCache, featureData,
                       lsOverflow>>
        /\ UNCHANGED notCh

CacheInitState ==
    /\ gmVariant = "legacy"
    /\ GmIdle
    /\ LvIdle
    /\ HbIdle
    /\ NtIdle
    /\ KvIdle
    /\ TmIdle
    /\ AiIdle
    /\ DbIdle
    /\ PfIdle
    /\ cacheFeature \in CacheFeatures
    /\ hasLocation \in BOOLEAN
    /\ lsCache = None
    /\ featureData = None
    /\ readCall = NoRead

CacheNext == CacheInit \/ CacheReload \/ CacheStorageFills \/ CacheTick
SpecCache == CacheInitState /\ [][CacheNext]_vars

-----------------------------------------------------------------------------
\* Claims about the cached features

\* C15: when no valid cache entry exists and the network call fails, the fetching
\* routine lets the failure out to its caller, which falls back.
C15_FailurePropagates ==
    (readCall.kind # "none" /\ ~readCall.valid /\ readCall.producerFailed) =>
        readCall.producerRaised

-----------------------------------------------------------------------------
\* AI integration: AIIntegration of src/unnamed/part_002 ("plain") and of
\* src/unnamed/part_004 ("global", built on window.storageManager, init() run by
\* its constructor), AiIntegration of src/unnamed/part_003 ("checked", no cache).
\* Time is counted in hours; dates are new Date().toISOString().split('T')[0],
\* the UTC date.

AiVariants == {"plain", "checked", "global"}
HasCache(variant) == variant # "checked"

\* this.dailyQuota
dailyQuota == 20
HoursPerDay == 24
\* this.cacheExpiry of the AI responses, in hours
AiTtlHours == 7 * HoursPerDay

UtcDate(h) == h \div HoursPerDay
LocalDate(h) == (h + tzHours) \div HoursPerDay

\* (mutant of isAIAvailable) one request more than the quota is let through
IsAIAvailableOffByOne(count) == count <= dailyQuota

\* isAIAvailable(): this.requestCount < this.dailyQuota
isAIAvailable(count) == count < dailyQuota

\* loadDailyCount(): the count of the stored usage record when it is of today's
\* (UTC) date, else 0
LoadedCount(usage, h) ==
    IF usage # None /\ Get(usage).date = UtcDate(h) THEN Get(usage).count ELSE 0

\* loadDailyCount() of part_003 also saves the count when the stored record is of
\* another day; part_002 and part_004 leave the store as it is
UsageAfterLoad(variant, usage, h, overflow) ==
    IF variant = "checked" /\ usage # None /\ Get(usage).date # UtcDate(h)
       /\ SaveSucceeds(overflow)
    THEN Some([date |-> UtcDate(h), count |-> 0])
    ELSE usage

\* loadCache(): only the entries still valid are put into this.cache
LoadedCache(variant, entry, h) ==
    IF HasCache(variant) /\ HasValidEntry(entry, h, AiTtlHours) THEN entry ELSE None

\* saveDailyCount()
UsageAfterSave(usage, count, h, overflow) ==
    IF SaveSucceeds(overflow) THEN Some([date |-> UtcDate(h), count |-> count])
    ELSE usage

\* generateRecommendation up to the request: "fallback" when the quota is used
\* up, "cached" on a valid cache entry, else the provider is called
RequestRoute(variant, count, entry, key, h) ==
    IF ~isAIAvailable(count) THEN "fallback"
    ELSE IF HasCache(variant) /\ key = "k" /\ HasValidEntry(entry, h, AiTtlHours)
         THEN "cached"
         ELSE "send"

RemoveAt(seq, i) == SubSeq(seq, 1, i - 1) \o SubSeq(seq, i + 1, Len(seq))

-----------------------------------------------------------------------------
\* Actions of the AI integration

\* constructor(storageManager): only the class of part_003 tests its argument
ConstructorRejects(variant, given) == variant = "checked" /\ ~given

\* a page load: a new instance, built with or without the storage manager; the
\* constructor of part_004 takes no argument and runs init() at once
AiConstruct ==
    /\ aiInited
    /\ \E given \in BOOLEAN :
         /\ given \/ aiVariant # "global"
         /\ aiCall' = [NoAiCall EXCEPT !.kind = "construct", !.given = given,
                                       !.outcome =
                                           IF ConstructorRejects(aiVariant, given)
                                           THEN "threw" ELSE "constructed"]
         /\ IF ConstructorRejects(aiVariant, given)
            THEN UNCHANGED <<aiStorage, aiInited, requestCount, aiCache, inFlight>>
            ELSE /\ aiStorage' = given
                 /\ inFlight' = <<>>
                 /\ IF aiVariant = "global"
                    THEN /\ aiInited' = TRUE
                         /\ requestCount' = LoadedCount(lsUsage, hour)
                         /\ aiCache' = LoadedCache(aiVariant, lsAiCache, hour)
                    ELSE /\ aiInited' = FALSE
                         /\ requestCount' = 0
                         /\ aiCache' = None
    /\ UNCHANGED <<aiVariant, lsUsage, lsAiCache, sentToday, lastCheckDay,
                   tmVars>>
    /\ UNCHANGED notAi

\* init(): loadDailyCount(), loadCache()
AiInit ==
    /\ ~aiInited
    /\ aiInited' = TRUE
    /\ IF aiStorage
       THEN /\ requestCount' = LoadedCount(lsUsage, hour)
            /\ lsUsage' = UsageAfterLoad(aiVariant, lsUsage, hour, lsOverflow)
            /\ aiCache' = LoadedCache(aiVariant, lsAiCache, hour)
       ELSE \* this.storageManager.getFromLocalStorage raises, init() logs it
            UNCHANGED <<requestCount, lsUsage, aiCache>>
    /\ aiCall' = NoAiCall
    /\ UNCHANGED <<aiVariant, aiStorage, lsAiCache, inFlight, sentToday, lastCheckDay, tmVars>>
    /\ UNCHANGED notAi

\* generateRecommendation(type, context), up to its await of callAI
AiRequest ==
    /\ aiInited
    /\ Len(inFlight) < MaxInFlight
    /\ sentToday - requestCount < MaxUncounted
    /\ \E key \in {"k", "fresh"} :
         LET reached == RequestRoute(aiVariant, requestCount, aiCache, key, hour)
             \* buildPrompt reads the profile through this.storageManager
             route == IF reached = "send" /\ ~aiStorage THEN "threw" ELSE reached
             held == HasCache(aiVariant) /\ key = "k" /\ aiCache # None
             valid == held /\ HasValidEntry(aiCache, hour, AiTtlHours)
         IN /\ aiCall' = [kind |-> "request",
                          countSeen |-> requestCount,
                          firstOfDay |-> /\ lastCheckDay # None
                                         /\ Get(lastCheckDay) < LocalDate(hour),
                          valid |-> valid,
                          cachedResponse |-> IF held THEN Some(Get(aiCache).response)
                                             ELSE None,
                          sent |-> route = "send",
                          outcome |-> IF route = "send" THEN "pending" ELSE route,
                          value |-> IF route = "cached"
                                    THEN Some(Get(aiCache).response) ELSE None,
                          given |-> TRUE]
            /\ inFlight' = IF route = "send" THEN Append(inFlight, key) ELSE inFlight
            /\ sentToday' = IF route = "send" THEN sentToday + 1 ELSE sentToday
    /\ lastCheckDay' = Some(LocalDate(hour))
    /\ UNCHANGED <<aiVariant, aiStorage, aiInited, requestCount, lsUsage, aiCache,
                   lsAiCache, tmVars>>
    /\ UNCHANGED notAi

\* the provider answers a waiting request (ok) or the call fails: the rest of
\* generateRecommendation
AiResponse ==
    /\ \E i \in DOMAIN inFlight, ok \in BOOLEAN, response \in KvData :
         /\ inFlight' = RemoveAt(inFlight, i)
         /\ IF ok
            THEN /\ requestCount' = requestCount + 1
                 /\ lsUsage' = UsageAfterSave(lsUsage, requestCount + 1, hour, lsOverflow)
                 /\ IF HasCache(aiVariant) /\ inFlight[i] = "k"
                    THEN /\ aiCache' = Some([response |-> response, timestamp |-> hour])
                         /\ lsAiCache' = IF SaveSucceeds(lsOverflow)
                                         THEN Some([response |-> response,
                                                    timestamp |-> hour])
                                         ELSE lsAiCache
                    ELSE UNCHANGED <<aiCache, lsAiCache>>
                 /\ aiCall' = [NoAiCall EXCEPT !.kind = "answer", !.outcome = "response",
                                               !.value = Some(response)]
            ELSE /\ aiCall' = [NoAiCall EXCEPT !.kind = "answer", !.outcome = "fallback"]
                 /\ UNCHANGED <<requestCount, lsUsage, aiCache, lsAiCache>>
    /\ UNCHANGED <<aiVariant, aiStorage, aiInited, sentToday, lastCheckDay, tmVars>>
    /\ UNCHANGED notAi

AiTick ==
    /\ hour + AiClockStep <= MaxAiHour
    /\ hour' = hour + AiClockStep
    /\ sentToday' = IF LocalDate(hour + AiClockStep) # LocalDate(hour) THEN 0
                    ELSE sentToday
    /\ aiCall' = NoAiCall
    /\ UNCHANGED <<tzHours, aiVariant, aiStorage, aiInited, requestCount, lsUsage, aiCache,
                   lsAiCache, inFlight, lastCheckDay>>
    /\ UNCHANGED notAi

AiInitState ==
    /\ gmVariant = "legacy"
    /\ GmIdle
    /\ LvIdle
    /\ HbIdle
    /\ NtIdle
    /\ KvIdle
    /\ ChIdle
    /\ DbIdle
    /\ PfIdle
    /\ hour = 0
    /\ tzHours \in {0, TzOffset}
    /\ aiVariant \in AiVariants
    /\ aiStorage = TRUE
    /\ aiInited = (aiVariant = "global")
    /\ requestCount = 0
    /\ lsUsage = None
    /\ aiCache = None
    /\ lsAiCache = None
    /\ inFlight = <<>>
    /\ sentToday = 0
    /\ lastCheckDay = None
    /\ aiCall = NoAiCall

AiNext == AiConstruct \/ AiInit \/ AiRequest \/ AiResponse \/ AiTick
SpecAi == AiInitState /\ [][AiNext]_vars

-----------------------------------------------------------------------------
\* Claims about the AI integration (SpecAi)

\* C14: a read returns the stored value without calling the producer whenever an
\* entry exists with now - timestamp < ttl, and calls the producer again once the
\* ttl has elapsed (the provider being within its quota).
C14_CachedWithinTtl ==
    (aiCall.kind = "request" /\ aiCall.cachedResponse # None) =>
        IF aiCall.valid
        THEN /\ ~aiCall.sent
             /\ aiCall.outcome = "cached"
             /\ aiCall.value = aiCall.cachedResponse
        ELSE isAIAvailable(aiCall.countSeen) => aiCall.sent

\* C17: once the request counter has reached the daily quota, every
\* recommendation request is answered from the fallback path, without a call to
\* the provider and without an error.
C17_QuotaRoutesToFallback ==
    (aiCall.kind = "request" /\ aiCall.countSeen >= dailyQuota) =>
        /\ aiCall.outcome = "fallback"
        /\ ~aiCall.sent

\* C17, the case seen: a request made with the counter at the quota
C17_QuotaReached ==
    /\ aiCall.kind = "request"
    /\ aiCall.countSeen = dailyQuota
    /\ aiCall.outcome = "fallback"
    /\ sentToday = dailyQuota

\* C18: within one day at most dailyQuota requests are sent to the provider.
C18_AtMostQuotaSent ==
    sentToday <= dailyQuota

\* C19: the first quota check made after the local calendar date has changed sees
\* a count of 0.
C19_ResetAtLocalMidnight ==
    (aiCall.kind = "request" /\ aiCall.firstOfDay) => aiCall.countSeen = 0

\* C24: a constructor that takes the storage manager as its argument raises when
\* the argument is missing, instead of building an instance without it.
C24_MissingCollaboratorRejected ==
    (aiCall.kind = "construct" /\ ~aiCall.given) => aiCall.outcome = "threw"

-----------------------------------------------------------------------------
\* Document store: one object store of StorageManager, with keyPath and with or
\* without autoIncrement (createHabitsStores: 'habitLogs' has it, 'streaks' has
\* not).  saveToDB is store.put(data), getAllFromDB is store.getAll(),
\* deleteFromDB is store.delete(key).

DbKeys == 1..MaxKey
CarriedKeys == {None} \cup {Some(k) : k \in DbKeys}

\* the key a put stores the record under: the one at the record's keyPath, else
\* one from the key generator; without either the put raises DataError
PutKey(auto, gen, carried) ==
    IF carried # None THEN carried
    ELSE IF auto THEN Some(gen) ELSE None

\* the key generator after a put: past a generated key, and past a carried key
\* that is not below it
KeyGenAfter(auto, gen, carried) ==
    IF ~auto THEN gen
    ELSE IF carried = None THEN gen + 1
    ELSE IF Get(carried) >= gen THEN Get(carried) + 1 ELSE gen

WithoutKey(store, k) == SelectSeq(store, LAMBDA r : r.key # k)

InsertInKeyOrder(store, rec) ==
    SelectSeq(store, LAMBDA r : r.key <= rec.key) \o <<rec>>
        \o SelectSeq(store, LAMBDA r : r.key > rec.key)

\* (mutant of StorePut) the record is stored next to the one that has its key
StorePutAdds(store, rec) == InsertInKeyOrder(store, rec)

\* store.put(record): the record takes the place of the one with its key
StorePut(store, rec) == InsertInKeyOrder(WithoutKey(store, rec.key), rec)

RecordsOf(store, k) == {i \in DOMAIN store : store[i].key = k}

\* saveToDB(dbName, storeName, data)
DbPut ==
    /\ \E carried \in CarriedKeys, value \in KvData :
         LET key == PutKey(dbAuto, keyGen, carried)
         IN /\ key # None => Get(key) \in DbKeys
            /\ IF key = None
               THEN /\ dbCall' = [NoDbCall EXCEPT !.op = "put", !.value = value,
                                                 !.before = docStore]
                    /\ UNCHANGED <<docStore, keyGen>>
               ELSE /\ docStore' = StorePut(docStore, [key |-> Get(key), value |-> value])
                    /\ keyGen' = KeyGenAfter(dbAuto, keyGen, carried)
                    /\ dbCall' = [op |-> "put", key |-> key, value |-> value,
                                  ok |-> TRUE,
                                  replaced |-> RecordsOf(docStore, Get(key)) # {},
                                  before |-> docStore]
    /\ UNCHANGED dbAuto
    /\ UNCHANGED notDb

\* deleteFromDB(dbName, storeName, key)
DbDelete ==
    /\ \E k \in DbKeys :
         /\ RecordsOf(docStore, k) # {}
         /\ docStore' = WithoutKey(docStore, k)
         /\ dbCall' = [NoDbCall EXCEPT !.op = "delete", !.key = Some(k), !.ok = TRUE,
                                       !.before = docStore]
    /\ UNCHANGED <<dbAuto, keyGen>>
    /\ UNCHANGED notDb

DbInitState ==
    /\ gmVariant = "legacy"
    /\ GmIdle
    /\ LvIdle
    /\ HbIdle
    /\ NtIdle
    /\ KvIdle
    /\ TmIdle
    /\ ChIdle
    /\ AiIdle
    /\ PfIdle
    /\ dbAuto \in BOOLEAN
    /\ docStore = <<>>
    /\ keyGen = 1
    /\ dbCall = NoDbCall

DbNext == DbPut \/ DbDelete
SpecDb == DbInitState /\ [][DbNext]_vars

-----------------------------------------------------------------------------
\* Claims about the document store (SpecDb)

\* C25: after a put, getAll holds exactly one record with the key of the put, and
\* that record has the fields of this put; the other records are as before.
C25_PutIsUpsert ==
    (dbCall.op = "put" /\ dbCall.ok) =>
        /\ Cardinality(RecordsOf(docStore, Get(dbCall.key))) = 1
        /\ \A i \in RecordsOf(docStore, Get(dbCall.key)) :
               docStore[i].value = dbCall.value
        /\ WithoutKey(docStore, Get(dbCall.key))
               = WithoutKey(dbCall.before, Get(dbCall.key))

\* C25, the case seen: the second put with a key replaced a record that held
\* other fields
C25_SecondPutReplaced ==
    /\ dbCall.op = "put" /\ dbCall.ok /\ dbCall.replaced
    /\ \E i \in RecordsOf(dbCall.before, Get(dbCall.key)) :
           dbCall.before[i].value # dbCall.value

-----------------------------------------------------------------------------
\* The holders of the user profile.  GamificationManager (src/js/habit-engine.js)
\* keeps the object it read in init() and writes it back in addXP;
\* SettingsManager and WeatherManager (src/unnamed/part_006) keep objects of
\* their own, parsed from the stored text (getFromLocalStorage does JSON.parse,
\* so no two holders share an object).  Of the profile the model keeps the
\* stats; the fields the other holders change (preferences.prayerEnabled,
\* basicInfo.location.lat / lon) are left out.

\* SettingsManager.loadUserData, lines 205-217, run by the constructor's init()
SettingsLoadUserData ==
    /\ stProfile' = lsProfile
    /\ UNCHANGED <<wmProfile, xpDue>>
    /\ UNCHANGED <<gmVars, notPf>>

\* what saveToLocalStorage('userProfile', profile) leaves in the store and in
\* the migration collection
ProfileSaved(profile) ==
    /\ lsProfile' = IF SaveSucceeds(lsOverflow) THEN Some(profile) ELSE lsProfile
    /\ migratedData' = IF SaveSucceeds(lsOverflow) THEN migratedData
                       ELSE Migrate(migratedData, "userProfile", profile)

\* SettingsManager.togglePrayerNotifications(enabled), lines 483-498: the flag
\* is set in this.userProfile, which is then saved as the stored profile
TogglePrayerNotifications ==
    /\ IF stProfile # None
       THEN ProfileSaved(Get(stProfile))
       ELSE UNCHANGED <<lsProfile, migratedData>>
    /\ UNCHANGED <<stProfile, wmProfile, xpDue>>
    /\ UNCHANGED <<gmVariant, userProfile, achievements, lsAchievements, lsOverflow,
                   xpCall, achCall, everUnlocked, achXp>>
    /\ UNCHANGED notPf

\* WeatherManager.getCoordsForCity(city), lines 99-119: when the geocoder has an
\* answer the stored profile is read, given the coordinates, saved and kept.  A
\* missing profile raises on profile.basicInfo, which the catch logs.
GetCoordsForCity ==
    /\ \E found \in BOOLEAN :
         IF found /\ lsProfile # None
         THEN /\ ProfileSaved(Get(lsProfile))
              /\ wmProfile' = lsProfile
         ELSE UNCHANGED <<lsProfile, migratedData, wmProfile>>
    /\ UNCHANGED <<stProfile, xpDue>>
    /\ UNCHANGED <<gmVariant, userProfile, achievements, lsAchievements, lsOverflow,
                   xpCall, achCall, everUnlocked, achXp>>
    /\ UNCHANGED notPf

\* the xp due at most in a run of the holders of the profile
MaxDue == 150

\* addXP(amount) of the gamification engine
PfAddXP ==
    /\ \E amount \in XpAmounts :
         /\ XpRoom(amount)
         /\ xpDue + amount <= MaxDue
         /\ LET g == addXP(gmVariant, [CurrentGm EXCEPT !.call = NoCall], amount,
                           lsOverflow)
            IN /\ GmBecomes(g)
               /\ xpCall' = g.call
               /\ xpDue' = xpDue + XpOf(g.profile) - XpOf(userProfile)
    /\ achCall' = NoAchCall
    /\ UNCHANGED <<stProfile, wmProfile>>
    /\ UNCHANGED <<gmVariant, lsOverflow>>
    /\ UNCHANGED notPf

\* a page load: a new gamification engine whose init() reads the stored profile
PfGmInit ==
    /\ userProfile' = lsProfile
    /\ xpCall' = NoCall
    /\ achCall' = NoAchCall
    /\ UNCHANGED <<gmVariant, achievements, lsProfile, lsAchievements, lsOverflow,
                   migratedData, everUnlocked, achXp>>
    /\ UNCHANGED <<pfVars, notPf>>

\* onboarding has stored the profile and the engine of habit-engine.js, whose
\* addXP saves the profile, has run init()
PfInitState ==
    /\ gmVariant = "injected"
    /\ \E xp \in StartXps :
         /\ lsProfile = Some(StoredProfile(xp))
         /\ userProfile = lsProfile
         /\ xpDue = xp
    /\ achievements = [loaded |-> TRUE, unlocked |-> {}]
    /\ lsAchievements = None
    /\ lsOverflow = FALSE
    /\ migratedData = <<>>
    /\ xpCall = NoCall
    /\ achCall = NoAchCall
    /\ everUnlocked = {}
    /\ achXp = [id \in AchIds |-> 0]
    /\ LvIdle
    /\ NtIdle
    /\ HbIdle
    /\ KvIdle
    /\ TmIdle
    /\ ChIdle
    /\ AiIdle
    /\ DbIdle
    /\ stProfile = None
    /\ wmProfile = None

PfNext ==
    \/ SettingsLoadUserData \/ TogglePrayerNotifications \/ GetCoordsForCity
    \/ PfAddXP \/ PfGmInit
SpecPf == PfInitState /\ [][PfNext]_vars

-----------------------------------------------------------------------------
\* Claims about the holders of the profile (SpecPf)

\* C29: no xp award is lost: the xp of the stored profile is the xp it started
\* with plus every amount awarded, whatever the other holders of the profile
\* write back.
C29_NoAwardLost == XpOf(lsProfile) = xpDue

====
